---- MODULE Spec2Model ----
(***************************************************************************)
(* Verification model of the FastAPI agent-passport middleware            *)
(* (aport-sdks, middleware/fastapi).                                       *)
(*                                                                         *)
(*  Part 1  policy_enforcement_v2.py: the process-wide decision cache      *)
(*          _verification_cache and verify_policy_compliance, called       *)
(*          concurrently; a call is suspended at its POST to the           *)
(*          directory.                          (specification SpecVerify) *)
(*  Part 2  policy_enforcement_v2.py: the middleware built by              *)
(*          create_agent_passport_middleware, which calls                  *)
(*          verify_policy_compliance and fetch_policy_pack.                *)
(*                                                    (specification Spec) *)
(*  Part 3  AgentPassportMiddleware.dispatch of middleware_v2,             *)
(*          middleware_simple and middleware_v3, and the policy            *)
(*          middlewares require_policy and require_policy_with_context     *)
(*          of middleware_v3.                 (specification SpecDispatch) *)
(*  Part 4  require_refunds_policy of middleware_v2.                       *)
(*                                              (specification SpecRefund) *)
(*  Part 5  the pure helpers _extract_capability_ids, the agent id         *)
(*          expression and the limits step of dispatch, and the cache key, *)
(*          applied to bounded inputs.                                     *)
(*                                                (specification SpecPure) *)
(*  Parts 2 and 3 side by side: specification SpecMiddlewares, and with    *)
(*  fair returns of the directory calls: specification SpecReturning.      *)
(*  Part 2 entered at global_middleware: specification SpecGlobal.         *)
(***************************************************************************)
EXTENDS Integers, Sequences, FiniteSets, TLC

\* ------------------------------------------------------------------ bounds
\* capability lists have at most MaxCaps elements
MaxCaps == 3
\* concurrent calls of verify_policy_compliance
MaxCalls == 2
\* requests inside the middleware at once
MaxRequests == 1
\* the clock datetime.now().timestamp() runs from 0 to MaxTime
MaxTime == 3
\* config.cache_ttl, scaled down from its default of 60 seconds
CacheTtl == 2

Calls == 1..MaxCalls
Requests == 1..MaxRequests

\* Identifiers are strings, modelled as sequences of characters so that the
\* f-string that builds the cache key is a real concatenation.
Agents == { <<"a">>, <<"a", ":", "a">> }
Policies == { <<"p">>, <<"p", ":", "a">> }
NoPolicy == << >>
Contexts == { "c1", "c2" }

\* what the directory evaluates: (agent_id, policy_id, context)
DirKeys == Agents \X Policies \X Contexts

\* the (agent_id, policy_id, context) that calls are made with: two contexts
\* for one agent and policy, and a second agent
Inputs == { << <<"a">>, <<"p">>, "c1" >>,
            << <<"a">>, <<"p">>, "c2" >>,
            << <<"a", ":", "a">>, <<"p">>, "c1" >> }

NoInput == << << >>, NoPolicy, "none" >>

\* ------------------------------------------------- values of policy_response
\* verify_policy_compliance returns None, or the JSON body of the 200 answer.
\* A body is a dict; "evaluated" stands for the payload (reason, violations,
\* passport.evaluation) that the directory computed from the request it was sent.
NoneResponse == [kind |-> "None", allow |-> FALSE, evaluated |-> NoInput]
EmptyBody == [kind |-> "dict", allow |-> FALSE, evaluated |-> NoInput]
Body(allow, input) == [kind |-> "dict", allow |-> allow, evaluated |-> input]

\* Python truthiness of a policy_response: None and {} are falsy
Truthy(resp) == resp.kind = "dict" /\ resp # EmptyBody

\* ------------------------------------------------------------------- state
VARIABLES
    now,        \* datetime.now().timestamp()
    directory,  \* the remote directory: its current verdict per (agent, policy, context)
    cache,      \* _verification_cache: cache_key -> {"result", "expires"}
    calls,      \* the calls of verify_policy_compliance in progress, one per slot
    returned,   \* the call of verify_policy_compliance that ended last
    config,     \* PolicyEnforcementConfig of the middleware: fail_closed, enabled
    req,        \* the requests suspended inside the middleware, one per slot
    finished,   \* the request that left the middleware last, with its outcome
    disp,       \* the request inside AgentPassportMiddleware.dispatch
    refund,     \* the request inside refunds_policy_dependency (middleware_v2)
    applied     \* the last application of a pure helper function

vars == <<now, directory, cache, calls, returned, config, req, finished, disp, refund, applied>>

\* ------------------------------------------------------ verify_policy_compliance
\* cache_key = f"policy:{policy_id}:{agent_id}"
CacheKey(policy_id, agent_id) == <<"policy", ":">> \o policy_id \o <<":">> \o agent_id

KeyOf(input) == CacheKey(input[2], input[1])

\* a comparison that also serves an entry at the very instant it expires
CacheHitAtExpiry(c, key, t) == key \in DOMAIN c /\ c[key].expires >= t

\* cached and cached.get("expires", 0) > datetime.now().timestamp()
CacheHit(c, key, t) == key \in DOMAIN c /\ c[key].expires > t

\* a store that does not look at the verdict
ShouldCacheAlways(result) == TRUE

\* if result.get("allow"):
ShouldCache(result) == result.allow

\* {"result": result, "expires": datetime.now().timestamp() + config.cache_ttl}
\* (stored_at is history: the time of the store, always expires - cache_ttl)
NewEntry(result, t) == [result |-> result, expires |-> t + CacheTtl, stored_at |-> t]

\* a store that rebuilds the cache around the new entry
CachePutOnly(c, key, entry) == [k \in {key} |-> entry]

\* _verification_cache[cache_key] = entry
CachePut(c, key, entry) ==
    [k \in DOMAIN c \cup {key} |-> IF k = key THEN entry ELSE c[k]]

\* the cache after the 200 answer `result` came back at time t
CacheAfterAnswer(c, key, result, t) ==
    IF ShouldCache(result) THEN CachePut(c, key, NewEntry(result, t)) ELSE c

\* a cancellation that leaves a half-built entry behind
CacheAfterCancelPartial(c, key) ==
    [k \in DOMAIN c \cup {key} |->
        IF k = key THEN [result |-> NoneResponse, expires |-> 0, stored_at |-> 0] ELSE c[k]]

\* the cache after the task was cancelled while suspended in client.post:
\* CancelledError is no Exception, so no statement of the function runs any more
CacheAfterCancel(c, key) == c

\* what the POST yields: the body of a 200 answer (the directory's verdict on
\* the request it was sent, or an empty body), None for a non-200 answer and
\* for an exception
Answered(answer, input) ==
    IF answer = "200" THEN Body(directory[input] = "allow", input)
    ELSE IF answer = "200-empty" THEN EmptyBody
    ELSE NoneResponse

Answers == {"200", "200-empty", "non-200", "exception"}

IdleCall ==
    [pc |-> "idle", input |-> NoInput,
     result |-> NoneResponse,
     from_cache |-> FALSE,   \* history: ended at the cache-hit return
     posted |-> FALSE,       \* history: made the POST to the directory
     at |-> 0]               \* history: the time of the cache lookup that served it

\* verify_policy_compliance is called: the cache lookup, then either the
\* cache-hit return or the suspension in client.post
Call(i, input) ==
    /\ calls[i].pc = "idle"
    /\ LET c == [IdleCall EXCEPT !.input = input] IN
       IF CacheHit(cache, KeyOf(input), now)
       THEN /\ returned' = [c EXCEPT !.pc = "returned", !.from_cache = TRUE, !.at = now,
                                     !.result = cache[KeyOf(input)].result]
            /\ calls' = calls
       ELSE /\ calls' = [calls EXCEPT ![i] = [c EXCEPT !.pc = "posting"]]
            /\ returned' = returned
    /\ UNCHANGED <<now, directory, cache, config, req, finished, disp, refund, applied>>

\* the POST comes back and the call runs to its return
PostReturn(i, answer) ==
    /\ calls[i].pc = "posting"
    /\ LET c == calls[i]
           result == Answered(answer, c.input)
       IN  /\ cache' = IF answer \in {"200", "200-empty"}
                       THEN CacheAfterAnswer(cache, KeyOf(c.input), result, now)
                       ELSE cache
           /\ returned' = [c EXCEPT !.pc = "returned", !.posted = TRUE, !.result = result]
           /\ calls' = [calls EXCEPT ![i] = IdleCall]
    /\ UNCHANGED <<now, directory, config, req, finished, disp, refund, applied>>

\* the task of the call is cancelled while it is suspended in client.post
CancelCall(i) ==
    /\ calls[i].pc = "posting"
    /\ cache' = CacheAfterCancel(cache, KeyOf(calls[i].input))
    /\ returned' = [calls[i] EXCEPT !.pc = "cancelled", !.posted = TRUE]
    /\ calls' = [calls EXCEPT ![i] = IdleCall]
    /\ UNCHANGED <<now, directory, config, req, finished, disp, refund, applied>>

\* ------------------------------------------------------------- environment
Tick ==
    /\ now < MaxTime
    /\ now' = now + 1
    /\ UNCHANGED <<directory, cache, calls, returned, config, req, finished, disp, refund, applied>>

\* the directory's verdict for one evaluated request changes
DirectoryChange(k) ==
    /\ directory' = [directory EXCEPT ![k] = IF @ = "allow" THEN "deny" ELSE "allow"]
    /\ UNCHANGED <<now, cache, calls, returned, config, req, finished, disp, refund, applied>>

\* ------------------------------------- create_agent_passport_middleware.middleware
NoOutcome == [status |-> 0, error |-> "none"]

IdleRequest ==
    [pc |-> "idle", input |-> NoInput,
     policy_response |-> NoneResponse,
     from_cache |-> FALSE,     \* history: verify_policy_compliance answered from the cache
     posted |-> FALSE,         \* history: the POST to the directory was made
     called_next |-> 0,        \* number of call_next invocations
     policy_result |-> FALSE,  \* request.state.policy_result is set
     call_next |-> "handler",  \* what call_next is: the next handler, or the
                               \* `lambda req: None` that require_policy passes
     entry |-> "middleware",   \* entered at the middleware, or at global_middleware
     \* history of a request that entered at global_middleware:
     has_state_policy_id |-> FALSE,  \* hasattr(request.state, 'policy_id')
     state_policy_id |-> NoPolicy,   \* request.state.policy_id
     header_policy_id |-> NoPolicy,  \* the x-policy-id header
     outcome |-> NoOutcome]

\* a policy id taken from the header first
PolicyIdOfHeaderFirst(state_policy_id, header_policy_id) ==
    IF header_policy_id # NoPolicy THEN header_policy_id ELSE state_policy_id

\* policy_id = getattr(request.state, 'policy_id', None) or request.headers.get("x-policy-id")
PolicyIdOf(state_policy_id, header_policy_id) ==
    IF state_policy_id # NoPolicy THEN state_policy_id ELSE header_policy_id

\* what call_next can be
CallNexts == {"handler", "lambda"}

\* return await call_next(request): the handler's response; with
\* `lambda req: None` the call gives None and `await None` raises TypeError
Forward(rec) ==
    [rec EXCEPT !.pc = "done", !.called_next = @ + 1,
                !.outcome = IF rec.call_next = "lambda"
                            THEN [status |-> 500, error |-> "TypeError"]
                            ELSE [status |-> 200, error |-> "none"]]

\* raise HTTPException(status_code=status, detail={"error": error, ...})
Reject(rec, status, error) ==
    [rec EXCEPT !.pc = "done", !.outcome = [status |-> status, error |-> error]]

\* a middleware that forwards whenever there is no result, whatever fail_closed says
AfterVerifyFailOpen(rec, resp, fail_closed) ==
    LET r1 == [rec EXCEPT !.policy_response = resp] IN
    IF ~Truthy(resp) THEN Forward(r1)
    ELSE IF ~resp.allow
    THEN IF fail_closed THEN Reject(r1, 403, "policy_violation") ELSE Forward(r1)
    ELSE [r1 EXCEPT !.pc = "fetching"]

\* a middleware that runs the handler first and raises the denial afterwards
AfterVerifyForwardThenReject(rec, resp, fail_closed) ==
    LET r1 == [rec EXCEPT !.policy_response = resp] IN
    IF ~Truthy(resp)
    THEN IF fail_closed
         THEN Reject(r1, 500, "policy_verification_failed")
         ELSE Forward(r1)
    ELSE IF ~resp.allow
    THEN IF fail_closed
         THEN Reject(Forward(r1), 403, "policy_violation")
         ELSE Forward(r1)
    ELSE [r1 EXCEPT !.pc = "fetching"]

\* a middleware that asks the directory again when it got no result
AfterVerifyRetry(rec, resp, fail_closed) ==
    LET r1 == [rec EXCEPT !.policy_response = resp] IN
    IF ~Truthy(resp) THEN [r1 EXCEPT !.pc = "verifying"]
    ELSE IF ~resp.allow
    THEN IF fail_closed THEN Reject(r1, 403, "policy_violation") ELSE Forward(r1)
    ELSE [r1 EXCEPT !.pc = "fetching"]

\* the middleware from the return of verify_policy_compliance to its next
\* suspension (fetch_policy_pack) or its end
AfterVerify(rec, resp, fail_closed) ==
    LET r1 == [rec EXCEPT !.policy_response = resp] IN
    IF ~Truthy(resp)
    THEN IF fail_closed
         THEN Reject(r1, 500, "policy_verification_failed")
         ELSE Forward(r1)
    ELSE IF ~resp.allow
    THEN IF fail_closed
         THEN Reject(r1, 403, "policy_violation")
         ELSE Forward(r1)
    ELSE [r1 EXCEPT !.pc = "fetching"]

\* A request that reached the end of the middleware leaves its slot and
\* becomes the finished one.
Settle(r, rec) ==
    IF rec.pc = "done"
    THEN /\ req' = [req EXCEPT ![r] = IdleRequest]
         /\ finished' = rec
    ELSE /\ req' = [req EXCEPT ![r] = rec]
         /\ finished' = finished

\* A request enters the middleware and runs to its first suspension: the
\* enabled test, the policy id, the cache lookup of verify_policy_compliance.
\* the request as it enters: its headers and request.state
Entering(agent_id, state_policy_id, header_policy_id, context, call_next) ==
    [IdleRequest EXCEPT
        !.input = <<agent_id, PolicyIdOf(state_policy_id, header_policy_id), context>>,
        !.call_next = call_next]

\* the middleware up to its first suspension: the enabled test, the policy
\* id, the cache lookup of verify_policy_compliance
EnterMiddleware(rec) ==
    IF ~config.enabled THEN Forward(rec)
    ELSE IF rec.input[2] = NoPolicy THEN Reject(rec, 400, "policy_id_required")
    ELSE IF CacheHit(cache, KeyOf(rec.input), now)
         THEN AfterVerify([rec EXCEPT !.from_cache = TRUE],
                          cache[KeyOf(rec.input)].result, config.fail_closed)
         ELSE [rec EXCEPT !.pc = "verifying"]

Request(r, agent_id, state_policy_id, header_policy_id, context, call_next) ==
    /\ req[r].pc = "idle"
    /\ Settle(r, EnterMiddleware(Entering(agent_id, state_policy_id, header_policy_id,
                                          context, call_next)))
    /\ UNCHANGED <<now, directory, cache, calls, returned, config, disp, refund, applied>>

\* A request enters global_middleware of agent_passport_middleware, which
\* hands it to the middleware when request.state has a policy_id attribute
\* (whatever its value) or the x-policy-id header is there, and to the
\* handler otherwise.
GlobalMiddleware(r, agent_id, has_state_policy_id, state_policy_id, header_policy_id, context) ==
    /\ req[r].pc = "idle"
    /\ state_policy_id # NoPolicy => has_state_policy_id
    /\ LET rec == [Entering(agent_id, state_policy_id, header_policy_id, context, "handler")
                      EXCEPT !.entry = "global",
                             !.has_state_policy_id = has_state_policy_id,
                             !.state_policy_id = state_policy_id,
                             !.header_policy_id = header_policy_id]
       IN  Settle(r, IF has_state_policy_id \/ header_policy_id # NoPolicy
                     THEN EnterMiddleware(rec)
                     ELSE Forward(rec))
    /\ UNCHANGED <<now, directory, cache, calls, returned, config, disp, refund, applied>>

\* The POST of verify_policy_compliance comes back inside the middleware.
VerifyReturn(r, answer) ==
    /\ req[r].pc = "verifying"
    /\ LET rec == [req[r] EXCEPT !.posted = TRUE]
           result == Answered(answer, rec.input)
       IN  /\ cache' = IF answer \in {"200", "200-empty"}
                       THEN CacheAfterAnswer(cache, KeyOf(rec.input), result, now)
                       ELSE cache
           /\ Settle(r, AfterVerify(rec, result, config.fail_closed))
    /\ UNCHANGED <<now, directory, calls, returned, config, disp, refund, applied>>

\* fetch_policy_pack comes back: the policy pack, or None
FetchPolicyReturn(r, found) ==
    /\ req[r].pc = "fetching"
    /\ Settle(r, Forward([req[r] EXCEPT !.policy_result = found]))
    /\ UNCHANGED <<now, directory, cache, calls, returned, config, disp, refund, applied>>

\* The framework cancels the request while it is suspended.
Cancel(r) ==
    /\ req[r].pc \in {"verifying", "fetching"}
    /\ cache' = CacheAfterCancel(cache, KeyOf(req[r].input))
    /\ Settle(r, [req[r] EXCEPT !.pc = "done",
                                !.outcome = [status |-> 0, error |-> "cancelled"]])
    /\ UNCHANGED <<now, directory, calls, returned, config, disp, refund, applied>>

\* ------------------------------------------- AgentPassportMiddleware.dispatch
\* The three variants of the class: middleware_v2, middleware_simple, middleware_v3.
Variants == {"v2", "simple", "v3"}

\* Header values and paths are strings, modelled as sequences of tokens;
\* the empty sequence is an absent (None) or empty header.
NoHeader == << >>
PassportIdHeaders == { NoHeader, <<"P">> }
AgentIdHeaders == { NoHeader, <<"G">> }
AuthorizationHeaders == { NoHeader, <<"Bearer ">>, <<"Bearer ", "B">>, <<"Basic ", "B">> }

Methods == {"GET", "OPTIONS"}
Paths == { <<"/">>, <<"/", "health">>, <<"/", "protected">> }
\* options.skip_paths of the examples: simple_standard_example and sdk_based_example
SkipPathSets == { { <<"/", "health">> }, { <<"/">>, <<"/", "health">> } }
\* options.skip_methods
SkipMethods == {"OPTIONS"}

\* str.startswith
StartsWith(str, prefix) ==
    /\ Len(prefix) <= Len(str)
    /\ SubSeq(str, 1, Len(prefix)) = prefix

\* a skip test that compares the whole path
ShouldSkipRequestExact(method, path, skip_paths) ==
    \/ method \in SkipMethods
    \/ path \in skip_paths

\* middleware_v2 and middleware_simple: _should_skip_request
ShouldSkipRequest(method, path, skip_paths) ==
    \/ method \in SkipMethods
    \/ \E sp \in skip_paths : StartsWith(path, sp)

\* middleware_v3: _should_skip_verification
ShouldSkipVerification(method, path, skip_paths) ==
    \/ path \in skip_paths
    \/ method \in SkipMethods

\* auth_header[7:] if auth_header and auth_header.startswith('Bearer ') else None
BearerToken(auth_header) ==
    IF auth_header # NoHeader /\ StartsWith(auth_header, <<"Bearer ">>)
    THEN Tail(auth_header)
    ELSE NoHeader

\* an extraction that prefers the Bearer token to the headers
AgentIdOfBearerFirst(passport_id_header, agent_id_header, auth_header) ==
    IF BearerToken(auth_header) # NoHeader THEN BearerToken(auth_header)
    ELSE IF passport_id_header # NoHeader THEN passport_id_header
    ELSE agent_id_header

\* headers.get('x-agent-passport-id') or headers.get('x-agent-id') or (bearer token)
AgentIdOf(passport_id_header, agent_id_header, auth_header) ==
    IF passport_id_header # NoHeader THEN passport_id_header
    ELSE IF agent_id_header # NoHeader THEN agent_id_header
    ELSE BearerToken(auth_header)

\* middleware_v3: extract_agent_id_from_request of the validation module, by
\* the precedence the specification gives (identity header, agent-id header,
\* Bearer token)
ExtractAgentIdFromRequest(passport_id_header, agent_id_header, auth_header) ==
    IF passport_id_header # NoHeader THEN passport_id_header
    ELSE IF agent_id_header # NoHeader THEN agent_id_header
    ELSE BearerToken(auth_header)

\* What verify_agent_passport does: it returns the agent, or raises
\* AgentPassportError (with its status_code, 0 for None), or another
\* exception. "cause" is history: why it failed.
VerifyPassportOutcomes ==
    { [kind |-> "ok", cause |-> "none", status_code |-> 0] }
    \cup { [kind |-> "AgentPassportError", cause |-> c, status_code |-> sc] :
             c \in {"not_found", "unreachable"}, sc \in {0, 404} }
    \cup { [kind |-> "Exception", cause |-> "unreachable", status_code |-> 0] }

NoVerify == [kind |-> "none", cause |-> "none", status_code |-> 0]

\* an order of the checks with assurance ahead of capability
ChecksV2AssuranceFirst == << "permissions", "allowed_regions", "assurance", "capability",
                            "mcp", "region", "limits" >>

\* the checks of middleware_v2 in the order dispatch runs them
ChecksV2 == << "permissions", "allowed_regions", "capability", "assurance",
               "mcp", "region", "limits" >>

\* the error each failing check is answered with
CheckError(check) ==
    CASE check = "permissions" -> "insufficient_permissions"
      [] check = "allowed_regions" -> "region_not_allowed"
      [] check = "capability" -> "insufficient_capabilities"
      [] check = "assurance" -> "insufficient_assurance"
      [] check = "mcp" -> "mcp_denied"
      [] check = "region" -> "region_not_allowed"
      [] check = "limits" -> "limits_exceeded"

FailingChecks == { ChecksV2[n] : n \in 1..Len(ChecksV2) }

\* the first check of ChecksV2 that is in `failing`, 0 when none is
FirstFailing(failing) ==
    IF \E n \in 1..Len(ChecksV2) : ChecksV2[n] \in failing
    THEN CHOOSE n \in 1..Len(ChecksV2) :
            /\ ChecksV2[n] \in failing
            /\ \A m \in 1..(n - 1) : ChecksV2[m] \notin failing
    ELSE 0

\* Region codes, the option lists of middleware_v2 and the verified passport.
Regions == {"US", "EU"}
Permissions == {"read"}
\* options.allowed_regions and options.required_permissions
AllowedRegionSets == { {}, {"EU"}, {"US", "EU"} }
RequiredPermissionSets == { {}, {"read"} }
\* the evaluators of the SDK that dispatch calls with the agent and the request
SdkChecks == {"capability", "assurance", "mcp", "limits"}

\* The agent that verify_agent_passport returns: agent.regions,
\* agent.permissions, and `denied`: the SDK evaluators whose verdict on this
\* agent and request has allowed = False.
AgentPassports == [regions : SUBSET Regions, permissions : SUBSET Permissions,
                   denied : SUBSET SdkChecks]
NoAgent == [regions |-> {}, permissions |-> {}, denied |-> {}]

\* client.has_permission(agent, permission)
HasPermission(agent, permission) == permission \in agent.permissions

\* client.is_allowed_in_region(agent, region)
IsAllowedInRegion(agent, region) == region \in agent.regions

\* check_region_requirements(agent.regions, options.allowed_regions, config)
\* of the SDK: allowed iff required_regions is empty or intersects agent_regions
CheckRegionRequirements(agent_regions, required_regions) ==
    required_regions = {} \/ agent_regions \cap required_regions # {}

\* a region pre-check that demands every listed region
AllowedRegionsCheckAll(allowed_regions, agent) ==
    allowed_regions # {} => \A region \in allowed_regions : IsAllowedInRegion(agent, region)

\* lines 129-135: the allowed_regions pre-check passes
AllowedRegionsCheck(allowed_regions, agent) ==
    allowed_regions # {} => \E region \in allowed_regions : IsAllowedInRegion(agent, region)

\* lines 111-117: the required_permissions pre-check passes
RequiredPermissionsCheck(required_permissions, agent) ==
    required_permissions # {} =>
        \A permission \in required_permissions : HasPermission(agent, permission)

\* the checks of ChecksV2 that, when dispatch reaches them, deny this agent
FailingV2(d, agent) ==
    { c \in FailingChecks :
        \/ c = "permissions" /\ ~RequiredPermissionsCheck(d.required_permissions, agent)
        \/ c = "allowed_regions" /\ ~AllowedRegionsCheck(d.allowed_regions, agent)
        \/ c = "region" /\ ~CheckRegionRequirements(agent.regions, d.allowed_regions)
        \/ c \in SdkChecks /\ c \in agent.denied }

\* what _run_enforcement_checks of middleware_v3 ends with: it returns, or it
\* raises HTTPException with this status and error
EnforcementOutcomes ==
    { [status |-> 0, error |-> "none"],
      [status |-> 403, error |-> "policy_access_denied"],
      [status |-> 404, error |-> "policy_not_found"],
      [status |-> 403, error |-> "policy_violation"],
      [status |-> 500, error |-> "enforcement_error"] }

\* no pure helper has been applied yet
NoApplication == [op |-> "none", arg |-> << >>, result |-> << >>]

\* JSON objects (dicts) are functions from keys to values.
EmptyDict == [k \in {} |-> 0]
\* Request bodies: the raw bytes are valid JSON for the object `json`, or not JSON.
Bodies == { [valid |-> FALSE, json |-> EmptyDict],
            [valid |-> TRUE, json |-> ("amount" :> 1)],
            [valid |-> TRUE, json |-> ("amount" :> 1 @@ "note" :> 2)] }
NoBody == [valid |-> FALSE, json |-> EmptyDict]
\* the context argument of require_policy_with_context
CallerContexts == { EmptyDict, ("amount" :> 5) }

\* body = {}; try: body = json.loads(await request.body()); except: body = {}
JsonLoads(body) == IF body.valid THEN body.json ELSE EmptyDict

\* a merge in which the request body overrides the caller's context
MergeBodyWins(body, context) ==
    [k \in DOMAIN body \cup DOMAIN context |->
        IF k \in DOMAIN body THEN body[k] ELSE context[k]]

\* {**body, **context}
Merge(body, context) ==
    [k \in DOMAIN body \cup DOMAIN context |->
        IF k \in DOMAIN context THEN context[k] ELSE body[k]]

\* What the policy functions of the SDK answer for this agent, policy and
\* context: has_policy_access, get_policy (found or not), verify_policy
\* (allowed or not), and which of them, if any, raises an exception.
PolicyCalls == {"has_policy_access", "get_policy", "verify_policy"}
PolicyAnswers == [has_access : BOOLEAN, policy_found : BOOLEAN, allowed : BOOLEAN,
                  raises : {"none"} \cup PolicyCalls]
NoAnswers == [has_access |-> FALSE, policy_found |-> FALSE, allowed |-> FALSE,
              raises |-> "none"]

\* The policy steps shared by _run_enforcement_checks, require_policy and
\* require_policy_with_context: the SDK calls made and where the steps end.
PolicySteps(a) ==
    IF a.raises = "has_policy_access"
    THEN [calls |-> {"has_policy_access"}, end |-> "exception"]
    ELSE IF ~a.has_access
    THEN [calls |-> {"has_policy_access"}, end |-> "policy_access_denied"]
    ELSE IF a.raises = "get_policy"
    THEN [calls |-> {"has_policy_access", "get_policy"}, end |-> "exception"]
    ELSE IF ~a.policy_found
    THEN [calls |-> {"has_policy_access", "get_policy"}, end |-> "policy_not_found"]
    ELSE IF a.raises = "verify_policy"
    THEN [calls |-> PolicyCalls, end |-> "exception"]
    ELSE IF ~a.allowed
    THEN [calls |-> PolicyCalls, end |-> "policy_violation"]
    ELSE [calls |-> PolicyCalls, end |-> "passed"]

\* the HTTPException of each end of the policy steps
PolicyStatus(end) ==
    CASE end = "policy_access_denied" -> 403
      [] end = "policy_not_found" -> 404
      [] end = "policy_violation" -> 403
      [] OTHER -> 0

\* enforcement checks that let a policy violation pass
RunEnforcementChecksNoVerdict(a) ==
    LET end == PolicySteps(a).end IN
    IF end \in {"passed", "policy_violation"} THEN [status |-> 0, error |-> "none"]
    ELSE IF end = "exception" THEN [status |-> 500, error |-> "enforcement_error"]
    ELSE [status |-> PolicyStatus(end), error |-> end]

\* middleware_v3: _run_enforcement_checks returns (status 0) or raises
\* HTTPException with this status and error
RunEnforcementChecks(a) ==
    LET end == PolicySteps(a).end IN
    IF end = "passed" THEN [status |-> 0, error |-> "none"]
    ELSE IF end = "exception" THEN [status |-> 500, error |-> "enforcement_error"]
    ELSE [status |-> PolicyStatus(end), error |-> end]

\* The text of an exception (str(e)), and the messages built from it.
ExceptionTexts == {"e1", "e2"}
OtherText(text) == CHOOSE t \in ExceptionTexts : t # text
NoMessage == << >>
InternalErrorMessage == <<"Internal server error">>
\* f"Policy middleware error: {str(e)}"
PolicyMiddlewareErrorMessage(text) == <<"Policy middleware error: ", text>>

IdleDispatch ==
    [pc |-> "idle", variant |-> "v2", fail_closed |-> TRUE,
     method |-> "GET", path |-> <<"/">>, skipped |-> FALSE,
     skip_paths |-> {},           \* options.skip_paths
     handler_raised |-> FALSE,    \* history: call_next raised
     agent_id |-> NoHeader,
     policy_id_set |-> FALSE,     \* options.policy_id (middleware_v3)
     required_permissions |-> {}, \* options.required_permissions (middleware_v2)
     allowed_regions |-> {},      \* options.allowed_regions (middleware_v2)
     agent |-> NoAgent,           \* what verify_agent_passport returned
     body |-> NoBody,             \* the request body read for the policy steps
     context |-> EmptyDict,       \* context of require_policy_with_context
     policy_context |-> EmptyDict, \* the context passed to the SDK's policy calls
     answers |-> NoAnswers,       \* what the SDK's policy calls answered
     sdk_calls |-> {},            \* the policy calls of the SDK that were made
     unexpected |-> FALSE,        \* an exception reached the outermost except clause
     message |-> NoMessage,       \* 'message' of the error response
     twin_message |-> NoMessage,  \* 'message' had the exception's text been the other text
     verify |-> NoVerify,         \* how verify_agent_passport ended
     verify_calls |-> 0,          \* calls of verify_agent_passport
     policy_calls |-> 0,          \* _run_enforcement_checks was entered
     failed_check |-> "none",
     called_next |-> 0,
     state_agent |-> FALSE,       \* request.state.agent is set
     status |-> 0, error |-> "none"]

\* return JSONResponse(status_code=status, content={'error': error, ...})
Respond(d, status, error) == [d EXCEPT !.pc = "done", !.status = status, !.error = error]

\* the error response of the outermost except Exception clause
InternalError(d) ==
    LET d1 == [d EXCEPT !.unexpected = TRUE, !.message = InternalErrorMessage,
                        !.twin_message = InternalErrorMessage] IN
    IF d.variant = "v3" THEN Respond(d1, 500, "middleware_error")
    ELSE Respond(d1, 500, "internal_error")

\* return await call_next(request), inside the try block of dispatch
CallNext(d, handler_raises) ==
    LET d1 == [d EXCEPT !.called_next = @ + 1] IN
    IF handler_raises THEN InternalError([d1 EXCEPT !.handler_raised = TRUE])
    ELSE [d1 EXCEPT !.pc = "done", !.status = 200]

\* dispatch up to its suspension in verify_agent_passport
DispatchStart(variant, fail_closed, skip_paths, required_permissions, allowed_regions, method, path, agent_id, policy_id_set, handler_raises) ==
    /\ disp.pc = "idle"
    /\ LET d == [IdleDispatch EXCEPT !.variant = variant, !.fail_closed = fail_closed,
                                     !.method = method, !.path = path,
                                     !.skip_paths = skip_paths,
                                     !.policy_id_set = policy_id_set /\ variant = "v3",
                                     !.required_permissions = required_permissions,
                                     !.allowed_regions = allowed_regions]
           skip == IF variant = "v3"
                   THEN ShouldSkipVerification(method, path, skip_paths)
                   ELSE ShouldSkipRequest(method, path, skip_paths)
       IN  disp' =
             IF skip THEN CallNext([d EXCEPT !.skipped = TRUE], handler_raises)
             ELSE IF agent_id = NoHeader
                  THEN IF fail_closed
                       THEN Respond(d, IF variant = "v3" THEN 401 ELSE 400, "missing_agent_id")
                       ELSE CallNext(d, handler_raises)
                  ELSE [d EXCEPT !.pc = "verifying", !.agent_id = agent_id]
    /\ UNCHANGED <<now, directory, cache, calls, returned, config, req, finished, refund, applied>>

\* a dispatch that does not look at the verdict of the limits evaluator
AfterPassportV2NoLimits(d, handler_raises) ==
    LET n == FirstFailing(FailingV2(d, d.agent) \ {"limits"}) IN
    IF n # 0
    THEN Respond([d EXCEPT !.failed_check = ChecksV2[n]], 403, CheckError(ChecksV2[n]))
    ELSE CallNext([d EXCEPT !.state_agent = TRUE], handler_raises)

\* a dispatch that attaches the agent as soon as the passport is verified
AfterPassportV2AttachFirst(d, handler_raises) ==
    LET n == FirstFailing(FailingV2(d, d.agent))
        d1 == [d EXCEPT !.state_agent = TRUE] IN
    IF n # 0
    THEN Respond([d1 EXCEPT !.failed_check = ChecksV2[n]], 403, CheckError(ChecksV2[n]))
    ELSE CallNext(d1, handler_raises)

\* dispatch of middleware_v2 after verify_agent_passport returned the agent
AfterPassportV2(d, handler_raises) ==
    LET n == FirstFailing(FailingV2(d, d.agent)) IN
    IF n # 0
    THEN Respond([d EXCEPT !.failed_check = ChecksV2[n]], 403, CheckError(ChecksV2[n]))
    ELSE CallNext([d EXCEPT !.state_agent = TRUE], handler_raises)

\* dispatch of middleware_v3 after verify_agent_passport returned the agent:
\* an HTTPException of _run_enforcement_checks is an Exception and ends in the
\* outermost except clause of dispatch
AfterPassportV3(d, answers, body, handler_raises) ==
    LET d1 == [d EXCEPT !.state_agent = TRUE]
        enforcement == RunEnforcementChecks(answers)
        d2 == [d1 EXCEPT !.policy_calls = 1, !.body = body,
                         !.policy_context = JsonLoads(body),
                         !.answers = answers, !.sdk_calls = PolicySteps(answers).calls]
    IN
    IF d.policy_id_set
    THEN IF enforcement.status # 0
         THEN InternalError([d2 EXCEPT !.failed_check = enforcement.error])
         ELSE CallNext(d2, handler_raises)
    ELSE CallNext(d1, handler_raises)

\* a dispatch that treats every failure of verify_agent_passport alike
AfterPassportErrorInternal(d) == InternalError(d)

\* dispatch after verify_agent_passport raised
AfterPassportError(d) ==
    IF d.verify.kind = "AgentPassportError"
    THEN IF d.variant = "v3"
         THEN Respond(d, 401, "agent_verification_failed")
         ELSE Respond(d, IF d.verify.status_code # 0 THEN d.verify.status_code ELSE 500,
                      d.verify.cause)
    ELSE InternalError(d)

\* verify_agent_passport comes back and dispatch runs to its end
VerifyPassportReturn(outcome, agent, answers, body, handler_raises) ==
    /\ disp.pc = "verifying" /\ disp.variant \in Variants
    /\ LET d == [disp EXCEPT !.verify = outcome, !.verify_calls = @ + 1,
                             !.agent = IF outcome.kind = "ok" THEN agent ELSE NoAgent] IN
       disp' =
         IF outcome.kind # "ok" THEN AfterPassportError(d)
         ELSE IF d.variant = "v2" THEN AfterPassportV2(d, handler_raises)
         ELSE IF d.variant = "simple" THEN CallNext([d EXCEPT !.state_agent = TRUE], handler_raises)
         ELSE AfterPassportV3(d, answers, body, handler_raises)
    /\ UNCHANGED <<now, directory, cache, calls, returned, config, req, finished, refund, applied>>

\* ------------------------- middleware_v3: require_policy, require_policy_with_context
PolicyMiddlewares == {"require_policy", "require_policy_with_context"}

\* the agent_id argument of require_policy / require_policy_with_context
AgentIdParams == { NoHeader, <<"F">> }

\* validate_agent_id_present of the validation module: the explicit function
\* parameter is preferred over the header
ValidateAgentIdPresent(agent_id_param, header_agent_id) ==
    IF agent_id_param # NoHeader THEN agent_id_param ELSE header_agent_id

\* except Exception as e: raise HTTPException(500, {"error":
\* "policy_middleware_error", "message": f"Policy middleware error: {str(e)}"})
PolicyMiddlewareError(d, text) ==
    Respond([d EXCEPT !.unexpected = TRUE,
                      !.message = PolicyMiddlewareErrorMessage(text),
                      !.twin_message = PolicyMiddlewareErrorMessage(OtherText(text))],
            500, "policy_middleware_error")

\* policy_middleware up to its suspension in verify_agent_passport
PolicyMiddlewareStart(kind, agent_id_param, header_agent_id, context) ==
    /\ disp.pc = "idle"
    /\ LET d == [IdleDispatch EXCEPT
                    !.variant = kind,
                    !.context = IF kind = "require_policy_with_context"
                                THEN context ELSE EmptyDict]
           final_agent_id == ValidateAgentIdPresent(agent_id_param, header_agent_id)
       IN  disp' = IF final_agent_id = NoHeader
                   THEN Respond(d, 400, "missing_agent_id")
                   ELSE [d EXCEPT !.pc = "verifying", !.agent_id = final_agent_id]
    /\ UNCHANGED <<now, directory, cache, calls, returned, config, req, finished, refund, applied>>

\* policy_middleware after verify_agent_passport returned the agent: the body,
\* the policy steps, the handler
AfterPassportPolicy(d, answers, body, text, handler_raises) ==
    LET steps == PolicySteps(answers)
        json == JsonLoads(body)
        d1 == [d EXCEPT !.state_agent = TRUE, !.body = body,
                        !.policy_context = IF d.variant = "require_policy_with_context"
                                           THEN Merge(json, d.context) ELSE json,
                        !.answers = answers, !.sdk_calls = steps.calls,
                        !.policy_calls = 1]
    IN
    IF steps.end = "exception" THEN PolicyMiddlewareError(d1, text)
    ELSE IF steps.end # "passed"
    THEN Respond([d1 EXCEPT !.failed_check = steps.end], PolicyStatus(steps.end), steps.end)
    ELSE IF handler_raises
    THEN PolicyMiddlewareError([d1 EXCEPT !.called_next = @ + 1,
                                          !.handler_raised = TRUE], text)
    ELSE [d1 EXCEPT !.called_next = @ + 1, !.pc = "done", !.status = 200]

\* verify_agent_passport comes back and policy_middleware runs to its end;
\* `text` is str(e) of the exception that is raised, if one is
PolicyMiddlewareReturn(outcome, answers, body, text, handler_raises) ==
    /\ disp.pc = "verifying" /\ disp.variant \in PolicyMiddlewares
    /\ LET d == [disp EXCEPT !.verify = outcome, !.verify_calls = @ + 1] IN
       disp' =
         IF outcome.kind = "AgentPassportError"
         THEN Respond([d EXCEPT !.message = <<text>>, !.twin_message = <<OtherText(text)>>],
                      401, "agent_verification_failed")
         ELSE IF outcome.kind = "Exception" THEN PolicyMiddlewareError(d, text)
         ELSE AfterPassportPolicy(d, answers, body, text, handler_raises)
    /\ UNCHANGED <<now, directory, cache, calls, returned, config, req, finished, refund, applied>>

\* the response has gone out (or the handler's response was passed on): the
\* request is over and the middleware takes the next one
DispatchEnd ==
    /\ disp.pc = "done"
    /\ disp' = IdleDispatch
    /\ UNCHANGED <<now, directory, cache, calls, returned, config, req, finished, refund, applied>>

\* ------------------------------------- middleware_v2: require_refunds_policy
\* An Optional value is a set: {} is None, {v} is the value v.
None == {}
\* Python truthiness of an Optional number: None and 0 are falsy
TruthyNumber(opt) == \E v \in opt : v # 0
\* Python truthiness of an Optional string: None and "" are falsy
TruthyString(opt) == \E v \in opt : v # ""

\* result.error of process_refund: None, or a dict that may lack keys
RefundErrors ==
    { [is_dict |-> FALSE, code |-> None, message |-> None, reasons |-> None],
      [is_dict |-> TRUE, code |-> None, message |-> None, reasons |-> None],
      [is_dict |-> TRUE, code |-> {"daily_cap_exceeded"}, message |-> {"cap exceeded"},
       reasons |-> {"r1"}] }
\* Python truthiness of result.error: None and {} are falsy
TruthyError(err) == err.is_dict /\ (err.code # None \/ err.message # None \/ err.reasons # None)

\* the result of process_refund
RefundResults ==
    [allowed : BOOLEAN, error : RefundErrors,
     decision_id : {None, {"d1"}},
     remaining_daily_cap : {None, {0}, {5}},
     expires_in : {None, {30}}]
NoResult == [allowed |-> FALSE,
             error |-> [is_dict |-> FALSE, code |-> None, message |-> None, reasons |-> None],
             decision_id |-> None, remaining_daily_cap |-> None, expires_in |-> None]

\* result.error.get(key, default) if result.error else default
ErrorGet(err, value, default) ==
    IF TruthyError(err) /\ value # None THEN value ELSE {default}

\* error_response: the detail of the 403; an absent key is None
NoDetail == [error |-> None, message |-> None, reasons |-> None,
             decision_id |-> None, remaining_daily_cap |-> None, expires_in |-> None]
ErrorResponse(result) ==
    [error |-> ErrorGet(result.error, result.error.code, "refund_policy_violation"),
     message |-> ErrorGet(result.error, result.error.message, "Refund request violates policy"),
     reasons |-> IF TruthyError(result.error) THEN result.error.reasons ELSE None,
     decision_id |-> IF TruthyString(result.decision_id) THEN result.decision_id ELSE None,
     remaining_daily_cap |-> IF TruthyNumber(result.remaining_daily_cap)
                             THEN result.remaining_daily_cap ELSE None,
     expires_in |-> IF TruthyNumber(result.expires_in) THEN result.expires_in ELSE None]

IdleRefund ==
    [pc |-> "idle", fail_closed |-> TRUE, log_violations |-> TRUE,
     raised |-> FALSE,            \* the evaluation (request.json, process_refund) raised
     result |-> NoResult,         \* what process_refund returned
     ends |-> "none",             \* "returned", "HTTPException" or "NameError"
     status |-> 0, detail |-> NoDetail,
     returned_none |-> FALSE,     \* the dependency returned None
     policy_result |-> FALSE]     \* request.state.policy_result is set

\* the module has no name `logger`: logger.warning(...) and logger.error(...)
\* raise NameError
LoggerCall(r) == [r EXCEPT !.pc = "done", !.ends = "NameError"]

\* the clause `except Exception as e` of the dependency: its first statement
\* is logger.error(...), so the NameError leaves the dependency
ExceptException(r) == LoggerCall(r)

\* refunds_policy_dependency, from the request to its end
RefundsPolicyDependency(fail_closed, log_violations, raises, result) ==
    /\ LET r == [IdleRefund EXCEPT !.fail_closed = fail_closed,
                                   !.log_violations = log_violations,
                                   !.raised = raises,
                                   !.result = IF raises THEN NoResult ELSE result]
       IN  refund' =
             IF raises THEN ExceptException(r)
             ELSE IF ~result.allowed
             THEN IF log_violations
                  THEN ExceptException(r)
                  ELSE [r EXCEPT !.pc = "done", !.ends = "HTTPException", !.status = 403,
                                 !.detail = ErrorResponse(result)]
             ELSE [r EXCEPT !.pc = "done", !.ends = "returned", !.policy_result = TRUE]
    /\ UNCHANGED <<now, directory, cache, calls, returned, config, req, finished, disp, applied>>

\* ------------------------------------------------------- pure helper functions
\* The elements of agent.capabilities: a plain string, or a record (dict)
\* that has an 'id' key with a string value or has none.
CapabilityValues ==
    { [kind |-> "str", value |-> "a", id |-> None],
      [kind |-> "str", value |-> "b", id |-> None],
      [kind |-> "dict", value |-> "", id |-> {"a"}],
      [kind |-> "dict", value |-> "", id |-> {"b"}],
      [kind |-> "dict", value |-> "", id |-> None] }

RECURSIVE SeqsUpTo(_, _)
\* the sequences over S of length at most n
SeqsUpTo(S, n) ==
    IF n = 0 THEN { << >> }
    ELSE LET shorter == SeqsUpTo(S, n - 1) IN
         shorter \cup { Append(q, x) : q \in shorter, x \in S }

CapabilityLists == SeqsUpTo(CapabilityValues, MaxCaps)

\* one element of _extract_capability_ids: a str is kept, a dict gives
\* cap.get('id', cap), i.e. its id or, without an id, the dict itself
ExtractCapabilityId(cap) ==
    IF cap.kind = "str" THEN cap
    ELSE IF cap.id # None
         THEN [kind |-> "str", value |-> CHOOSE v \in cap.id : TRUE, id |-> None]
         ELSE cap

\* _extract_capability_ids
ExtractCapabilityIds(capabilities) ==
    [n \in 1..Len(capabilities) |-> ExtractCapabilityId(capabilities[n])]

\* _extract_capability_ids is applied to a capability list
ApplyExtractCapabilityIds(capabilities) ==
    /\ applied' = [op |-> "_extract_capability_ids", arg |-> capabilities,
                   result |-> ExtractCapabilityIds(capabilities)]
    /\ UNCHANGED <<now, directory, cache, calls, returned, config, req, finished, disp, refund>>

\* the agent id is extracted from the headers of a request (middleware_v2,
\* middleware_simple)
ApplyAgentIdOf(passport_id_header, agent_id_header, auth_header) ==
    /\ applied' = [op |-> "agent_id",
                   arg |-> <<passport_id_header, agent_id_header, auth_header>>,
                   result |-> AgentIdOf(passport_id_header, agent_id_header, auth_header)]
    /\ UNCHANGED <<now, directory, cache, calls, returned, config, req, finished, disp, refund>>

\* ------------------------------------------------- the limits step of dispatch
\* request paths, as their segments
OperationPaths == { <<"payments", "refund">>, <<"data", "export">>, <<"protected">> }
\* agent.limits
AgentLimits == { EmptyDict, ("refund_amount_max_per_tx" :> 1000) }
\* the JSON body of the request
OperationBodies == { EmptyDict, ("amount_cents" :> 500), ("amount_cents" :> 1000),
                     ("amount_cents" :> 150000) }

\* "/deploy" in path, and the like: a segment of the path is the word (the
\* segments of OperationPaths are whole words)
InPath(word, path) == \E n \in 1..Len(path) : path[n] = word

\* _get_operation_type
GetOperationType(path) ==
    IF InPath("deploy", path) \/ InPath("infra", path) THEN "deploy"
    ELSE IF InPath("export", path) \/ InPath("data", path) THEN "export"
    ELSE IF InPath("refund", path) \/ InPath("payment", path) THEN "refund"
    ELSE "general"

\* _extract_operation_data: return {}
ExtractOperationData(body) == EmptyDict

\* check_limits_for_operation of the SDK, for refunds: a numeric threshold is
\* violated when the operation's value strictly exceeds the limit
CheckLimitsForOperation(operation_type, limits, operation_data) ==
    ~ ( /\ operation_type = "refund"
        /\ "refund_amount_max_per_tx" \in DOMAIN limits
        /\ "amount_cents" \in DOMAIN operation_data
        /\ operation_data["amount_cents"] > limits["refund_amount_max_per_tx"] )

\* lines 223-231 of dispatch: the verdict of the limits step for a request
ApplyLimitsCheck(path, limits, body) ==
    /\ applied' = [op |-> "limits_check", arg |-> <<path, limits, body>>,
                   result |-> << CheckLimitsForOperation(GetOperationType(path), limits,
                                                         ExtractOperationData(body)) >>]
    /\ UNCHANGED <<now, directory, cache, calls, returned, config, req, finished, disp, refund>>

\* line 72 of verify_policy_compliance: the cache keys of two calls
ApplyCacheKey(policy_id, agent_id, other_policy_id, other_agent_id) ==
    /\ applied' = [op |-> "cache_key",
                   arg |-> << <<policy_id, agent_id>>, <<other_policy_id, other_agent_id>> >>,
                   result |-> << CacheKey(policy_id, agent_id),
                                 CacheKey(other_policy_id, other_agent_id) >>]
    /\ UNCHANGED <<now, directory, cache, calls, returned, config, req, finished, disp, refund>>

\* ------------------------------------------------------------ specifications
Init ==
    /\ now = 0
    /\ directory = [k \in DirKeys |-> "deny"]
    /\ cache = << >>
    /\ calls = [i \in Calls |-> IdleCall]
    /\ returned = IdleCall
    /\ config \in [fail_closed : BOOLEAN, enabled : BOOLEAN]
    /\ req = [r \in Requests |-> IdleRequest]
    /\ finished = IdleRequest
    /\ disp = IdleDispatch
    /\ refund = IdleRefund
    /\ applied = NoApplication

\* PolicyEnforcementConfig(): fail_closed = True, enabled = True
DefaultConfig == [fail_closed |-> TRUE, enabled |-> TRUE]

InitVerify == Init /\ config = DefaultConfig

\* concurrent calls of verify_policy_compliance
NextVerify ==
    \/ \E i \in Calls, input \in Inputs : Call(i, input)
    \/ \E i \in Calls, answer \in Answers : PostReturn(i, answer)
    \/ \E i \in Calls : CancelCall(i)
    \/ Tick
    \/ \E k \in Inputs : DirectoryChange(k)

SpecVerify == InitVerify /\ [][NextVerify]_vars

\* where a request carries its policy id: request.state.policy_id (set by
\* require_policy), the x-policy-id header, both (the header then names
\* another policy), or neither
PolicyIdPlaces == {"state", "header", "both", "neither"}
StatePolicyId(where, policy_id) ==
    IF where \in {"state", "both"} THEN policy_id ELSE NoPolicy
HeaderPolicyId(where, policy_id) ==
    IF where = "header" THEN policy_id
    ELSE IF where = "both" THEN CHOOSE q \in Policies : q # policy_id
    ELSE NoPolicy

\* the requests sent through the middleware: one agent and policy, two contexts
MiddlewareInputs == { input \in Inputs : input[1] = <<"a">> }

\* requests through the middleware
Next ==
    \/ \E r \in Requests, input \in MiddlewareInputs, where \in PolicyIdPlaces :
       \E call_next \in (IF where \in {"state", "both"} THEN CallNexts ELSE {"handler"}) :
          Request(r, input[1], StatePolicyId(where, input[2]),
                  HeaderPolicyId(where, input[2]), input[3], call_next)
    \/ \E r \in Requests, answer \in Answers : VerifyReturn(r, answer)
    \/ \E r \in Requests, found \in BOOLEAN : FetchPolicyReturn(r, found)
    \/ \E r \in Requests : Cancel(r)
    \/ Tick
    \/ \E k \in MiddlewareInputs : DirectoryChange(k)

Spec == Init /\ [][Next]_vars

\* The application installs agent_passport_middleware: every request enters
\* at global_middleware. The clock stands still here.
NextGlobal ==
    \/ \E r \in Requests, input \in MiddlewareInputs, where \in PolicyIdPlaces,
          has_state_policy_id \in BOOLEAN :
          GlobalMiddleware(r, input[1], has_state_policy_id, StatePolicyId(where, input[2]),
                           HeaderPolicyId(where, input[2]), input[3])
    \/ \E r \in Requests, answer \in Answers : VerifyReturn(r, answer)
    \/ \E r \in Requests, found \in BOOLEAN : FetchPolicyReturn(r, found)
    \/ \E r \in Requests : Cancel(r)
    \/ \E k \in MiddlewareInputs : DirectoryChange(k)

SpecGlobal == Init /\ [][NextGlobal]_vars

\* requests through AgentPassportMiddleware.dispatch
NextDispatch ==
    \/ \E variant \in Variants, fail_closed \in BOOLEAN, skip_paths \in SkipPathSets,
          method \in Methods, path \in Paths,
          ph \in PassportIdHeaders, ah \in AgentIdHeaders, auth \in AuthorizationHeaders,
          handler_raises \in BOOLEAN :
       \E required_permissions \in (IF variant = "v2" THEN RequiredPermissionSets ELSE {{}}),
          allowed_regions \in (IF variant = "v2" THEN AllowedRegionSets ELSE {{}}),
          policy_id_set \in (IF variant = "v3" THEN BOOLEAN ELSE {FALSE}) :
          DispatchStart(variant, fail_closed, skip_paths, required_permissions,
                        allowed_regions, method, path,
                        IF variant = "v3" THEN ExtractAgentIdFromRequest(ph, ah, auth)
                        ELSE AgentIdOf(ph, ah, auth),
                        policy_id_set, handler_raises)
    \/ \E outcome \in VerifyPassportOutcomes, handler_raises \in BOOLEAN :
       \E agent \in (IF disp.variant = "v2" THEN AgentPassports ELSE {NoAgent}),
          answers \in (IF disp.variant = "v3" /\ disp.policy_id_set
                       THEN PolicyAnswers ELSE {NoAnswers}),
          body \in (IF disp.variant = "v3" /\ disp.policy_id_set THEN Bodies ELSE {NoBody}) :
          VerifyPassportReturn(outcome, agent, answers, body, handler_raises)
    \/ \E kind \in PolicyMiddlewares, agent_id_param \in AgentIdParams,
          ph \in PassportIdHeaders, ah \in AgentIdHeaders, auth \in AuthorizationHeaders,
          context \in CallerContexts :
          PolicyMiddlewareStart(kind, agent_id_param,
                                ExtractAgentIdFromRequest(ph, ah, auth), context)
    \/ \E outcome \in VerifyPassportOutcomes, answers \in PolicyAnswers, body \in Bodies,
          text \in ExceptionTexts, handler_raises \in BOOLEAN :
          PolicyMiddlewareReturn(outcome, answers, body, text, handler_raises)
    \/ DispatchEnd

SpecDispatch == InitVerify /\ [][NextDispatch]_vars

\* The three middlewares side by side: requests of
\* create_agent_passport_middleware (Part 2) and requests of the dispatch
\* methods (Part 3). They share no state, so one of them runs at a time: a
\* dispatch runs while Part 2 is in its initial state, and Part 2 runs while
\* no dispatch has started.
PolicyEnforcementIdle ==
    /\ now = 0 /\ cache = << >> /\ config = DefaultConfig
    /\ directory = [k \in DirKeys |-> "deny"]
    /\ req = [r \in Requests |-> IdleRequest] /\ finished = IdleRequest

NextMiddlewares ==
    \/ disp = IdleDispatch /\ Next
    \/ PolicyEnforcementIdle /\ NextDispatch

SpecMiddlewares == Init /\ [][NextMiddlewares]_vars

\* The middlewares when every directory call eventually returns or fails
\* and no request is cancelled: each awaited call (the POST of
\* verify_policy_compliance, the GET of fetch_policy_pack,
\* verify_agent_passport) is resumed by the event loop once its answer or
\* its exception is there.
\* the passports verify_agent_passport returns here: the SDK evaluators
\* allow, or the limits evaluator denies
ReturningAgents == { a \in AgentPassports : a.denied \subseteq {"limits"} }

\* verify_agent_passport of a dispatch comes back
VerifyPassportReturns ==
    /\ disp.pc = "verifying" /\ disp.variant \in Variants
    /\ \E outcome \in VerifyPassportOutcomes, handler_raises \in BOOLEAN :
       \E agent \in (IF disp.variant = "v2" THEN ReturningAgents ELSE {NoAgent}),
          answers \in (IF disp.variant = "v3" /\ disp.policy_id_set
                       THEN PolicyAnswers ELSE {NoAnswers}),
          body \in (IF disp.variant = "v3" /\ disp.policy_id_set
                    THEN { b \in Bodies : b.valid } ELSE {NoBody}) :
          VerifyPassportReturn(outcome, agent, answers, body, handler_raises)

\* a request enters a dispatch method
DispatchStarts ==
    \E variant \in Variants, fail_closed \in BOOLEAN, skip_paths \in SkipPathSets,
       method \in Methods, path \in Paths,
       ph \in PassportIdHeaders, ah \in AgentIdHeaders, auth \in AuthorizationHeaders,
       handler_raises \in BOOLEAN :
    \E required_permissions \in (IF variant = "v2" THEN RequiredPermissionSets ELSE {{}}),
       allowed_regions \in (IF variant = "v2" THEN AllowedRegionSets ELSE {{}}),
       policy_id_set \in (IF variant = "v3" THEN BOOLEAN ELSE {FALSE}) :
       DispatchStart(variant, fail_closed, skip_paths, required_permissions,
                     allowed_regions, method, path,
                     IF variant = "v3" THEN ExtractAgentIdFromRequest(ph, ah, auth)
                     ELSE AgentIdOf(ph, ah, auth),
                     policy_id_set, handler_raises)

NextReturning ==
    \/ /\ disp = IdleDispatch
       /\ \/ \E r \in Requests, input \in MiddlewareInputs, where \in PolicyIdPlaces :
             \E call_next \in (IF where \in {"state", "both"} THEN CallNexts ELSE {"handler"}) :
                Request(r, input[1], StatePolicyId(where, input[2]),
                        HeaderPolicyId(where, input[2]), input[3], call_next)
          \/ \E r \in Requests, answer \in Answers : VerifyReturn(r, answer)
          \/ \E r \in Requests, found \in BOOLEAN : FetchPolicyReturn(r, found)
          \/ Tick
          \/ \E k \in MiddlewareInputs : DirectoryChange(k)
    \/ /\ PolicyEnforcementIdle
       /\ \/ DispatchStarts
          \/ VerifyPassportReturns
          \/ DispatchEnd

DirectoryCallsReturn ==
    /\ \A r \in Requests : WF_vars(\E answer \in Answers : VerifyReturn(r, answer))
    /\ \A r \in Requests : WF_vars(\E found \in BOOLEAN : FetchPolicyReturn(r, found))
    /\ WF_vars(VerifyPassportReturns)

SpecReturning == Init /\ [][NextReturning]_vars /\ DirectoryCallsReturn

\* requests through the dependency of require_refunds_policy
NextRefund ==
    \E fail_closed \in BOOLEAN, log_violations \in BOOLEAN, raises \in BOOLEAN,
       result \in RefundResults :
       RefundsPolicyDependency(fail_closed, log_violations, raises, result)

SpecRefund == InitVerify /\ [][NextRefund]_vars

\* applications of the pure helper functions
NextPure ==
    \/ \E capabilities \in CapabilityLists : ApplyExtractCapabilityIds(capabilities)
    \/ \E ph \in PassportIdHeaders, ah \in AgentIdHeaders, auth \in AuthorizationHeaders :
          ApplyAgentIdOf(ph, ah, auth)
    \/ \E path \in OperationPaths, limits \in AgentLimits, body \in OperationBodies :
          ApplyLimitsCheck(path, limits, body)
    \/ \E policy_id \in Policies, agent_id \in Agents,
          other_policy_id \in Policies, other_agent_id \in Agents :
          ApplyCacheKey(policy_id, agent_id, other_policy_id, other_agent_id)

SpecPure == InitVerify /\ [][NextPure]_vars

\* ===================================================================== claims
\* ------------------------------------------------------------------------ C1
\* C1: when verify_policy_compliance yields no result (None: unreachable
\* directory, exception, non-200 answer), the middleware rejects with HTTP 500
\* policy_verification_failed and never invokes call_next if fail_closed is
\* true, and invokes call_next with no policy_result attached if it is false.
C1_NoResultFollowsFailClosed ==
    (finished.pc = "done" /\ finished.posted /\ finished.policy_response = NoneResponse)
    => IF config.fail_closed
       THEN /\ finished.outcome = [status |-> 500, error |-> "policy_verification_failed"]
            /\ finished.called_next = 0
       ELSE /\ finished.called_next = 1
            /\ ~finished.policy_result

\* a request whose verification yielded nothing was forwarded under fail_closed = false
C1_Witness ==
    /\ ~config.fail_closed
    /\ finished.pc = "done" /\ finished.posted /\ finished.policy_response = NoneResponse
    /\ finished.called_next = 1

\* ------------------------------------------------------------------------ C2
\* C2 (as claimed): for either value of fail_closed a request whose
\* verification result has allow = false is rejected with HTTP 403
\* policy_violation and call_next is never invoked for it.
C2_DenialAlwaysRejected ==
    (finished.pc = "done" /\ Truthy(finished.policy_response)
        /\ ~finished.policy_response.allow)
    => /\ finished.outcome = [status |-> 403, error |-> "policy_violation"]
       /\ finished.called_next = 0

\* ------------------------------------------------------------------------ C3
\* C3 (as claimed): when verify_agent_passport fails because the directory is
\* unreachable, dispatch denies the request without invoking the handler if
\* options.fail_closed is true, and lets it proceed to the handler with no
\* agent attached to request.state if it is false.
C3_UnreachableFollowsFailClosed ==
    (disp.pc = "done" /\ disp.variant \in Variants /\ disp.verify.cause = "unreachable")
    => IF disp.fail_closed
       THEN disp.status >= 400 /\ disp.called_next = 0
       ELSE disp.called_next = 1 /\ ~disp.state_agent

\* ------------------------------------------------------------------------ C4
\* C4: every entry of the decision cache holds a result whose allow field is
\* true, in every reachable state under any interleaving of concurrent calls.
C4_CacheHoldsOnlyAllow ==
    \A k \in DOMAIN cache : cache[k].result.kind = "dict" /\ cache[k].result.allow

\* a fresh deny came back for a key that holds an entry, and the entry is still an allow
C4_Witness ==
    /\ returned.pc = "returned" /\ returned.posted
    /\ Truthy(returned.result) /\ ~returned.result.allow
    /\ KeyOf(returned.input) \in DOMAIN cache

\* ------------------------------------------------------------------------ C5
\* C5 (as claimed): a decision served from the cache is served only to a call
\* with the agent, policy and context of the call that stored it.
C5_ServedToSameRequestOnly ==
    returned.from_cache => returned.result.evaluated = returned.input

\* ------------------------------------------------------------------------ C6
\* C6 (as claimed): once an allow result was obtained for (agent, policy,
\* context), it stays the answer until its entry expires: the entry is not
\* replaced by another result before its expiry, and an identical call made
\* before the expiry is answered with it and makes no POST.
C6_SameResultUntilExpiry ==
    [][ /\ \A k \in DOMAIN cache :
              cache[k].expires > now => cache'[k].result = cache[k].result
        /\ \A i \in Calls :
              (calls[i].pc = "idle" /\ calls'[i].pc = "posting")
              => ~ (/\ KeyOf(calls'[i].input) \in DOMAIN cache
                    /\ cache[KeyOf(calls'[i].input)].expires > now
                    /\ cache[KeyOf(calls'[i].input)].result.evaluated = calls'[i].input)
      ]_vars

\* ------------------------------------------------------------------------ C7
\* C7: every call that ends in a deny made its own POST to the directory; and
\* a call that ends while the directory's verdict for its (agent, policy,
\* context) is allow does not end in a deny, so a denial does not outlive the
\* condition that caused it.
C7_DenyIsNeverStale ==
    /\ [] ((returned.pc = "returned" /\ returned.result.kind = "dict"
              /\ ~returned.result.allow)
           => (returned.posted /\ ~returned.from_cache))
    /\ [][ (/\ returned' # returned
            /\ returned'.pc = "returned"
            /\ Truthy(returned'.result)
            /\ directory[returned'.input] = "allow")
           => returned'.result.allow ]_vars

\* a call was denied by its own POST, and the directory's verdict has become allow since
C7_Witness ==
    /\ returned.pc = "returned" /\ returned.posted
    /\ Truthy(returned.result) /\ ~returned.result.allow
    /\ directory[returned.input] = "allow"

\* ------------------------------------------------------------------------ C8
\* C8: an entry stored at time t with cache_ttl = T has expires = t + T and is
\* served only to lookups made at a time strictly below t + T; a lookup at or
\* after t + T makes a fresh POST.
C8_ServedOnlyBeforeExpiry ==
    /\ [][ \A k \in DOMAIN cache' :
              (k \notin DOMAIN cache \/ cache'[k] # cache[k])
              => (cache'[k].stored_at = now /\ cache'[k].expires = now + CacheTtl) ]_vars
    /\ [][ (returned' # returned /\ returned'.from_cache)
           => /\ returned'.at = now
              /\ KeyOf(returned'.input) \in DOMAIN cache
              /\ now < cache[KeyOf(returned'.input)].stored_at + CacheTtl
              /\ returned'.result = cache[KeyOf(returned'.input)].result ]_vars
    /\ [][ \A i \in Calls :
              (/\ calls[i].pc = "idle" /\ calls'[i] # calls[i]
               /\ KeyOf(calls'[i].input) \in DOMAIN cache
               /\ now >= cache[KeyOf(calls'[i].input)].stored_at + CacheTtl)
              => (calls'[i].pc = "posting" /\ returned' = returned) ]_vars

\* a call was served from an entry in the last instant before its expiry,
\* later than the instant of the store
C8_Witness ==
    /\ returned.pc = "returned" /\ returned.from_cache
    /\ KeyOf(returned.input) \in DOMAIN cache
    /\ returned.at = cache[KeyOf(returned.input)].stored_at + CacheTtl - 1
    /\ returned.at > cache[KeyOf(returned.input)].stored_at

\* ------------------------------------------------------------------------ C9
\* C9 (as claimed): evaluations that run concurrently and write the same cache
\* key write the same decision: an entry written while a call for the same key
\* is still in progress is the decision for that call's agent, policy and
\* context.
C9_ConcurrentWritersAgree ==
    \A i \in Calls :
        (/\ calls[i].pc = "posting"
         /\ KeyOf(calls[i].input) \in DOMAIN cache
         /\ cache[KeyOf(calls[i].input)].expires > now)
        => cache[KeyOf(calls[i].input)].result.evaluated = calls[i].input

\* ----------------------------------------------------------------------- C10
\* C10: the step in which a call is cancelled while suspended in its POST
\* leaves the decision cache exactly as it was, and every change of the cache
\* is made by a call that returns, never by a cancelled one.
C10_CancelLeavesCache ==
    [][ /\ (\E i \in Calls : /\ calls[i].pc = "posting" /\ calls'[i].pc = "idle"
                             /\ returned'.pc = "cancelled")
           => cache' = cache
        /\ cache' # cache => returned'.pc = "returned" ]_vars

\* a call was cancelled while another one was in progress and the cache held entries
C10_Witness ==
    /\ returned.pc = "cancelled"
    /\ cache # << >>
    /\ \E i \in Calls : calls[i].pc = "posting"

\* ----------------------------------------------------------------------- C11
\* a request that dispatch of middleware_v2 did not skip and that carried an
\* agent id has run to its end
DoneV2 ==
    /\ disp.pc = "done" /\ disp.variant = "v2"
    /\ ~disp.skipped /\ disp.agent_id # NoHeader

\* C11: in dispatch of middleware_v2, for a non-skipped request with an agent
\* id, call_next is invoked iff verify_agent_passport succeeded and every check
\* that dispatch ran returned allowed (required permissions, allowed regions,
\* capability, assurance, MCP, region validation, limits); otherwise an error
\* response is returned and call_next is not invoked.
C11_HandlerIffAllChecksAllowed ==
    DoneV2 =>
      LET all_allowed ==
            /\ disp.verify.kind = "ok"
            /\ RequiredPermissionsCheck(disp.required_permissions, disp.agent)
            /\ AllowedRegionsCheck(disp.allowed_regions, disp.agent)
            /\ disp.agent.denied = {}
            /\ CheckRegionRequirements(disp.agent.regions, disp.allowed_regions)
      IN  /\ (disp.called_next = 1) <=> all_allowed
          /\ ~all_allowed => (disp.called_next = 0 /\ disp.status >= 400 /\ disp.error # "none")

C11_Witness ==
    /\ DoneV2 /\ disp.called_next = 1 /\ disp.verify.kind = "ok"
    /\ disp.required_permissions # {} /\ disp.allowed_regions # {}

\* ----------------------------------------------------------------------- C12
\* the enforcement dimensions in the order the claim fixes
DimensionOrder == << "capability", "assurance", "mcp", "region", "limits" >>

\* the dimensions that this request fails
FailedDimensions ==
    { dim \in {"capability", "assurance", "mcp", "limits"} : dim \in disp.agent.denied }
    \cup (IF CheckRegionRequirements(disp.agent.regions, disp.allowed_regions)
          THEN {} ELSE {"region"})

\* C12 (as claimed): in dispatch of middleware_v2, a request that fails more
\* than one enforcement dimension is answered with the error of the earliest
\* failing dimension in the order capability, assurance, mcp/tool, region,
\* limits; a request failing both capability and the region requirement is
\* reported as a capability failure.
C12_EarliestDimensionReported ==
    (/\ DoneV2 /\ disp.verify.kind = "ok"
     /\ RequiredPermissionsCheck(disp.required_permissions, disp.agent)
     /\ Cardinality(FailedDimensions) > 1)
    => \E n \in 1..Len(DimensionOrder) :
          /\ DimensionOrder[n] \in FailedDimensions
          /\ \A m \in 1..(n - 1) : DimensionOrder[m] \notin FailedDimensions
          /\ disp.error = CheckError(DimensionOrder[n])

\* ----------------------------------------------------------------------- C13
\* the agent fails both the capability and the assurance check and passes the
\* permission and region pre-checks
FailsCapabilityAndAssurance ==
    /\ DoneV2 /\ disp.verify.kind = "ok"
    /\ {"capability", "assurance"} \subseteq disp.agent.denied
    /\ RequiredPermissionsCheck(disp.required_permissions, disp.agent)
    /\ AllowedRegionsCheck(disp.allowed_regions, disp.agent)

\* C13: in dispatch of middleware_v2, an agent failing both the capability
\* and the assurance check (and passing the permission and region pre-checks)
\* receives the capability denial insufficient_capabilities, never the
\* assurance denial.
C13_CapabilityBeforeAssurance ==
    FailsCapabilityAndAssurance
    => /\ disp.status = 403 /\ disp.error = "insufficient_capabilities"
       /\ disp.called_next = 0

C13_Witness ==
    /\ FailsCapabilityAndAssurance
    /\ disp.error = "insufficient_capabilities"

C15_MissingAgentIdFailsFast ==
    (disp.pc = "done" /\ disp.variant \in Variants /\ ~disp.skipped /\ disp.agent_id = NoHeader)
    => /\ disp.status \in {400, 401} /\ disp.error = "missing_agent_id"
       /\ disp.verify_calls = 0
       /\ disp.called_next = 0

\* ----------------------------------------------------------------------- C16
\* the entry points of middleware_v3
EntryPointsV3 == {"v3"} \cup PolicyMiddlewares

\* C16: in middleware_v3 (dispatch, require_policy,
\* require_policy_with_context), when verify_agent_passport raises
\* AgentPassportError the outcome is HTTP 401 agent_verification_failed, the
\* handler is not invoked and no policy call (has_policy_access, get_policy,
\* verify_policy) is made for the request.
C16_VerificationFailureIs401 ==
    (/\ disp.pc = "done" /\ disp.variant \in EntryPointsV3
     /\ disp.verify.kind = "AgentPassportError")
    => /\ disp.status = 401 /\ disp.error = "agent_verification_failed"
       /\ disp.called_next = 0
       /\ disp.sdk_calls = {} /\ disp.policy_calls = 0

C16_Witness ==
    /\ disp.pc = "done" /\ disp.variant = "require_policy"
    /\ disp.verify.kind = "AgentPassportError" /\ disp.verify.cause = "not_found"
    /\ disp.status = 401

\* ----------------------------------------------------------------------- C17
\* C17 (as claimed): in dispatch of middleware_v3 with options.policy_id set, a
\* verified request whose policy check denies (has_policy_access false, or
\* verify_policy allowed = false) is answered with HTTP 403 carrying the
\* denial's error code, policy_access_denied or policy_violation.
C17_PolicyDenialIs403 ==
    (/\ disp.pc = "done" /\ disp.variant = "v3" /\ disp.policy_id_set
     /\ disp.verify.kind = "ok"
     /\ PolicySteps(disp.answers).end \in {"policy_access_denied", "policy_violation"})
    => /\ disp.status = 403
       /\ disp.error = PolicySteps(disp.answers).end

\* ----------------------------------------------------------------------- C18
\* C18 (as claimed): in require_policy and require_policy_with_context of
\* middleware_v3, a request of a verified agent for a policy id that get_policy
\* does not know ends with HTTP 404 policy_not_found, whatever
\* has_policy_access returns for that agent and policy.
C18_UnknownPolicyIs404 ==
    (/\ disp.pc = "done" /\ disp.variant \in PolicyMiddlewares
     /\ disp.verify.kind = "ok"
     /\ disp.answers.raises = "none" /\ ~disp.answers.policy_found)
    => disp.status = 404 /\ disp.error = "policy_not_found"

\* ----------------------------------------------------------------------- C19
\* C19 (as claimed): for an unexpected exception raised during evaluation in a
\* middleware entry point the response does not depend on the exception: the
\* run that differs only in the exception's text gets the identical response.
C19_ResponseIndependentOfException ==
    (disp.pc = "done" /\ disp.unexpected) => disp.message = disp.twin_message

\* ----------------------------------------------------------------------- C20
\* C20: with the global middleware of middleware_v3 configured with a policy_id
\* and fail_closed = true, every non-skipped request that reaches the handler
\* has its agent verified (request.state.agent set from a successful
\* verify_agent_passport) and its policy verified: has_policy_access true, the
\* policy found, verify_policy allowed = true, asked with the request body.
C20_HandlerOnlyAfterFullVerification ==
    (/\ disp.pc = "done" /\ disp.variant = "v3" /\ disp.policy_id_set
     /\ disp.fail_closed /\ ~disp.skipped /\ disp.called_next > 0)
    => /\ disp.verify.kind = "ok" /\ disp.state_agent
       /\ disp.sdk_calls = PolicyCalls
       /\ disp.answers.has_access /\ disp.answers.policy_found /\ disp.answers.allowed
       /\ disp.answers.raises = "none"
       /\ disp.policy_context = JsonLoads(disp.body)

C20_Witness ==
    /\ disp.pc = "done" /\ disp.variant = "v3" /\ disp.policy_id_set
    /\ disp.fail_closed /\ ~disp.skipped /\ disp.called_next = 1
    /\ disp.status = 200 /\ disp.body.valid

\* ----------------------------------------------------------------------- C28
\* C28 (as claimed): in the dependency of require_refunds_policy, whenever
\* process_refund returns a result with allowed = false the dependency raises
\* HTTP 403 whose detail carries the result's error code, message and reasons,
\* for every combination of fail_closed and log_violations, and
\* request.state.policy_result is not set.
C28_RefundDenialIs403 ==
    (refund.pc = "done" /\ ~refund.raised /\ ~refund.result.allowed)
    => /\ refund.ends = "HTTPException" /\ refund.status = 403
       /\ refund.result.error.code # None => refund.detail.error = refund.result.error.code
       /\ refund.result.error.message # None
            => refund.detail.message = refund.result.error.message
       /\ refund.detail.reasons = refund.result.error.reasons
       /\ ~refund.policy_result

\* ----------------------------------------------------------------------- C29
\* C29 (as claimed): in the dependency of require_refunds_policy, when the
\* evaluation raises an unexpected exception, the dependency raises HTTP 500
\* refund_policy_error if fail_closed is true, and returns None without
\* raising, with no policy_result attached, if it is false.
C29_RefundErrorFollowsFailClosed ==
    (refund.pc = "done" /\ refund.raised)
    => IF refund.fail_closed
       THEN /\ refund.ends = "HTTPException" /\ refund.status = 500
            /\ refund.detail.error = {"refund_policy_error"}
       ELSE /\ refund.ends = "returned" /\ refund.returned_none
            /\ ~refund.policy_result

\* ----------------------------------------------------------------------- C30
\* C30 (as claimed): the denial payload of require_refunds_policy contains
\* decision_id, remaining_daily_cap and expires_in whenever the decision
\* carries them; a decision with remaining_daily_cap = 0 is reported with
\* remaining_daily_cap = 0, not with the field left out.
C30_DenialPayloadKeepsFields ==
    (refund.pc = "done" /\ refund.ends = "HTTPException" /\ refund.status = 403)
    => /\ refund.detail.decision_id = refund.result.decision_id
       /\ refund.detail.remaining_daily_cap = refund.result.remaining_daily_cap
       /\ refund.detail.expires_in = refund.result.expires_in

\* ----------------------------------------------------------------------- C22
\* C22: in dispatch of middleware_v2 and middleware_simple the agent id is the
\* x-agent-passport-id header if it is non-empty, otherwise the x-agent-id
\* header if it is non-empty, otherwise the text after 'Bearer ' of the
\* authorization header if that text is non-empty, otherwise it is missing; a
\* lower source never overrides a non-empty higher one.
C22_AgentIdPrecedence ==
    applied.op = "agent_id" =>
      LET passport_id == applied.arg[1]
          agent_id == applied.arg[2]
          auth == applied.arg[3]
          bearer == IF Len(auth) > 0 /\ auth[1] = "Bearer "
                    THEN SubSeq(auth, 2, Len(auth)) ELSE << >>
      IN  /\ passport_id # << >> => applied.result = passport_id
          /\ (passport_id = << >> /\ agent_id # << >>) => applied.result = agent_id
          /\ (passport_id = << >> /\ agent_id = << >> /\ bearer # << >>)
                => applied.result = bearer
          /\ (passport_id = << >> /\ agent_id = << >> /\ bearer = << >>)
                => applied.result = << >>

\* the x-agent-id header wins over a Bearer token that is also present
C22_Witness ==
    /\ applied.op = "agent_id"
    /\ applied.arg = << << >>, <<"G">>, <<"Bearer ", "B">> >>
    /\ applied.result = <<"G">>

\* ----------------------------------------------------------------------- C24
\* C24 (as claimed): _extract_capability_ids turns every capability list of
\* plain strings and records (with or without an id) into a list of strings
\* only, of the same length and order; a string maps to itself and a record
\* with an id to that id, so normalizing a normalized list changes nothing.
C24_CapabilityIdsAreStrings ==
    applied.op = "_extract_capability_ids" =>
      /\ Len(applied.result) = Len(applied.arg)
      /\ \A n \in 1..Len(applied.arg) :
            /\ applied.result[n].kind = "str"
            /\ applied.arg[n].kind = "str" => applied.result[n] = applied.arg[n]
            /\ (applied.arg[n].kind = "dict" /\ applied.arg[n].id # None)
                  => applied.result[n].value \in applied.arg[n].id
      /\ ExtractCapabilityIds(applied.result) = applied.result

\* ----------------------------------------------------------------------- C25
\* the verification of the finished request was allowed
FinishedAllowed ==
    /\ finished.pc = "done" /\ finished.outcome.error # "cancelled"
    /\ Truthy(finished.policy_response) /\ finished.policy_response.allow

\* C25 (as claimed): for a request whose policy verification is allowed, the
\* dependency of require_policy / require_policy_with_context of
\* policy_enforcement_v2 completes without raising, so that the route handler
\* runs.
C25_AllowedDependencyCompletes ==
    (FinishedAllowed /\ finished.call_next = "lambda")
    => finished.outcome = [status |-> 200, error |-> "none"]

\* ----------------------------------------------------------------------- C26
\* C26 (as claimed): has_policy_access(request) is true iff the middleware
\* obtained an allow result for the request: a policy_result is attached only
\* after an allow, and every request forwarded as allowed has one attached.
C26_AccessIffAllowObtained ==
    (finished.pc = "done" /\ finished.outcome.error # "cancelled")
    => (finished.policy_result <=> FinishedAllowed)

\* ----------------------------------------------------------------------- C27
\* C27 (as claimed): a request whose policy record cannot be fetched
\* (fetch_policy_pack returns nothing) fails with a policy-not-found error and
\* is not forwarded to the handler, even when the verify call returned allow.
C27_MissingPolicyFails ==
    (FinishedAllowed /\ ~finished.policy_result)
    => /\ finished.called_next = 0
       /\ finished.outcome.error = "policy_not_found"

\* ----------------------------------------------------------------------- C21
\* options.skip_paths of sdk_based_example, as far as the modelled paths go
SdkBasedSkipPaths == { <<"/">>, <<"/", "health">> }

\* C21 (as claimed): with the options of sdk_based_example (skip_paths with
\* "/" and "/health", skip_methods OPTIONS, fail_closed) a GET request to
\* /protected is not skipped by the dispatch of middleware_v2 or
\* middleware_simple: whenever it reaches the handler its passport was
\* verified and the agent is attached to request.state.
C21_ProtectedPathNotSkipped ==
    ( /\ disp.pc = "done" /\ disp.variant \in {"v2", "simple"}
      /\ disp.skip_paths = SdkBasedSkipPaths /\ disp.fail_closed
      /\ disp.method = "GET" /\ disp.path = <<"/", "protected">> )
    => /\ ~disp.skipped
       /\ disp.called_next > 0 => (disp.verify_calls = 1 /\ disp.state_agent)

\* ----------------------------------------------------------------------- C23
\* the terminal outcomes
DenialStatuses == {400, 401, 403}
ErrorStatuses == {500, 502}

\* C23: each request handled by a middleware ends in one terminal outcome:
\* call_next is invoked at most once, it is not invoked on a request that
\* ends in a denial or in an error the middleware chose itself, a request
\* whose call_next returned normally ends as allowed (with the awaited
\* handler: status 200; the stand-in of the dependency is not awaitable and
\* ends in an error, never in a denial), and a terminal outcome is not
\* changed afterwards.
C23_OneTerminalOutcome ==
    /\ [](finished.pc = "done" =>
            /\ finished.called_next <= 1
            /\ finished.outcome.status \in DenialStatuses => finished.called_next = 0
            /\ finished.outcome.error = "policy_verification_failed"
                 => finished.called_next = 0
            /\ finished.called_next = 1 =>
                 IF finished.call_next = "handler"
                 THEN finished.outcome = [status |-> 200, error |-> "none"]
                 ELSE finished.outcome.status \in ErrorStatuses)
    /\ [](disp.pc = "done" =>
            /\ disp.called_next <= 1
            /\ disp.handler_raised => (disp.called_next = 1 /\ disp.status \in ErrorStatuses)
            /\ (disp.status # 200 /\ ~disp.handler_raised) => disp.called_next = 0
            /\ (disp.called_next = 1 /\ ~disp.handler_raised) => disp.status = 200)
    /\ [][(disp.pc = "done" => disp' \in {disp, IdleDispatch})
          /\ \A r \in Requests : req[r].called_next = 0 /\ req[r].outcome = NoOutcome]_vars

\* all three kinds of outcome have happened next to each other: a request of
\* create_agent_passport_middleware was denied without reaching the handler
C23_Witness ==
    /\ finished.pc = "done" /\ finished.outcome.status = 403
    /\ finished.called_next = 0 /\ finished.posted

\* a dispatch reached the handler, which returned normally
C23_WitnessDispatch ==
    /\ disp.pc = "done" /\ disp.variant \in Variants /\ ~disp.skipped
    /\ disp.called_next = 1 /\ disp.status = 200

\* ----------------------------------------------------------------------- C31
\* C31 (as claimed): on a refund path, for an agent with a
\* refund_amount_max_per_tx limit and a request that states its amount, the
\* limits step of dispatch (middleware_v2) denies exactly when the amount
\* strictly exceeds the limit.
C31_LimitsFollowAmount ==
    ( /\ applied.op = "limits_check"
      /\ GetOperationType(applied.arg[1]) = "refund"
      /\ "refund_amount_max_per_tx" \in DOMAIN applied.arg[2]
      /\ "amount_cents" \in DOMAIN applied.arg[3] )
    => ( applied.result[1]
         <=> applied.arg[3]["amount_cents"] <= applied.arg[2]["refund_amount_max_per_tx"] )

\* ----------------------------------------------------------------------- C32
\* the request of this dispatch is one that the options say to skip: its
\* method is in skip_methods, or its path matches skip_paths (a prefix in
\* middleware_v2 and middleware_simple, the whole path in middleware_v3)
SkipMatches(d) ==
    \/ d.method \in SkipMethods
    \/ d.variant = "v3" /\ d.path \in d.skip_paths
    \/ /\ d.variant \in {"v2", "simple"}
       /\ \E sp \in d.skip_paths :
             Len(sp) <= Len(d.path) /\ \A n \in 1..Len(sp) : d.path[n] = sp[n]

\* C32: a request that the options say to skip is forwarded to the handler
\* untouched: call_next is invoked once, no agent id is extracted, no
\* directory call and no policy step is made, request.state.agent is not set
\* and no denial is produced, whatever headers it carries and whatever
\* fail_closed is.
C32_SkippedRequestForwarded ==
    (disp.pc = "done" /\ disp.variant \in Variants /\ SkipMatches(disp))
    => /\ disp.skipped
       /\ disp.called_next = 1
       /\ disp.agent_id = NoHeader /\ disp.verify_calls = 0 /\ disp.policy_calls = 0
       /\ disp.verify = NoVerify /\ disp.agent = NoAgent
       /\ ~disp.state_agent
       /\ disp.failed_check = "none"
       /\ IF disp.handler_raised THEN disp.status = 500 ELSE disp.status = 200

\* a request with a path under a skip path was skipped by middleware_v2 under
\* fail_closed
C32_Witness ==
    /\ disp.pc = "done" /\ disp.variant = "v2" /\ disp.fail_closed
    /\ disp.method = "GET" /\ disp.path = <<"/", "health">>
    /\ disp.skip_paths = { <<"/", "health">> }
    /\ disp.skipped /\ disp.called_next = 1 /\ disp.status = 200

\* ----------------------------------------------------------------------- C33
\* C33: a step of verify_policy_compliance changes the decision cache only
\* when it is the return of a call whose fresh answer is allow, and then only
\* the entry of that call's key: no key is ever removed, and the entries of
\* all other keys stay as they are. A cache hit, a deny, an empty or non-200
\* answer, an exception and a cancellation leave the whole cache unchanged.
C33_CacheFrame ==
    [][ /\ DOMAIN cache \subseteq DOMAIN cache'
        /\ cache' # cache =>
              /\ returned'.pc = "returned" /\ returned'.posted /\ ~returned'.from_cache
              /\ Truthy(returned'.result) /\ returned'.result.allow
              /\ KeyOf(returned'.input) \in DOMAIN cache'
              /\ cache'[KeyOf(returned'.input)].result = returned'.result
              /\ \A k \in DOMAIN cache' \ {KeyOf(returned'.input)} :
                    k \in DOMAIN cache /\ cache'[k] = cache[k] ]_vars

\* a call stored its allow while the entry of another key was in the cache
C33_Witness ==
    /\ returned.pc = "returned" /\ returned.posted /\ returned.result.allow
    /\ KeyOf(returned.input) \in DOMAIN cache
    /\ cache[KeyOf(returned.input)].stored_at = now
    /\ \E k \in DOMAIN cache : k # KeyOf(returned.input) /\ cache[k].stored_at < now

\* ----------------------------------------------------------------------- C34
\* C34 (as claimed): the decision-cache key separates (policy_id, agent_id)
\* pairs: two different pairs never get the same key, also when the
\* identifiers contain ':'.
C34_CacheKeySeparatesPairs ==
    applied.op = "cache_key" =>
        (applied.arg[1] # applied.arg[2] => applied.result[1] # applied.result[2])

\* ----------------------------------------------------------------------- C35
\* C35: in require_policy_with_context of middleware_v3 the context that goes
\* to has_policy_access and verify_policy has the keys of the request body
\* and of the caller-supplied context; a key of the caller-supplied context
\* has the caller's value, also when the body has the key too, and a key of
\* the body alone has the body's value.
C35_CallerContextOverlaysBody ==
    ( /\ disp.pc = "done" /\ disp.variant = "require_policy_with_context"
      /\ "has_policy_access" \in disp.sdk_calls )
    => LET body == IF disp.body.valid THEN disp.body.json ELSE EmptyDict IN
       /\ DOMAIN disp.policy_context = DOMAIN body \cup DOMAIN disp.context
       /\ \A k \in DOMAIN disp.context : disp.policy_context[k] = disp.context[k]
       /\ \A k \in DOMAIN body \ DOMAIN disp.context : disp.policy_context[k] = body[k]

\* the body tried to override a field the application fixed, and added one
C35_Witness ==
    /\ disp.pc = "done" /\ disp.variant = "require_policy_with_context"
    /\ disp.sdk_calls = PolicyCalls
    /\ disp.body.valid /\ disp.body.json = ("amount" :> 1 @@ "note" :> 2)
    /\ disp.context = ("amount" :> 5)
    /\ disp.policy_context = ("amount" :> 5 @@ "note" :> 2)

\* ----------------------------------------------------------------------- C36
\* what C36 says of the finished request: with neither a policy_id attribute
\* on request.state nor the x-policy-id header, global_middleware forwards it
\* to the handler with no verification at all; otherwise the policy enforced
\* is request.state.policy_id when that is non-empty and the header
\* otherwise, and when neither gives a policy id the middleware rejects with
\* HTTP 400 policy_id_required before any directory call.
PolicyIdSourceHolds ==
    LET neither == /\ finished.state_policy_id = NoPolicy
                   /\ finished.header_policy_id = NoPolicy
    IN
    /\ (~finished.has_state_policy_id /\ finished.header_policy_id = NoPolicy)
         => /\ finished.outcome = [status |-> 200, error |-> "none"]
            /\ finished.called_next = 1
            /\ ~finished.posted /\ ~finished.from_cache /\ ~finished.policy_result
    /\ finished.state_policy_id # NoPolicy
         => finished.input[2] = finished.state_policy_id
    /\ (finished.state_policy_id = NoPolicy /\ finished.header_policy_id # NoPolicy)
         => finished.input[2] = finished.header_policy_id
    /\ (finished.has_state_policy_id /\ neither)
         => /\ finished.outcome = [status |-> 400, error |-> "policy_id_required"]
            /\ finished.called_next = 0
            /\ ~finished.posted /\ ~finished.from_cache
    /\ finished.outcome.error = "policy_id_required" => neither
    /\ (finished.posted \/ finished.from_cache) => ~neither

\* C36 (as claimed): the policy id rule holds for every request of
\* policy_enforcement_v2, whatever the configuration.
C36_PolicyIdSourceAnyConfig ==
    (finished.pc = "done" /\ finished.entry = "global") => PolicyIdSourceHolds

\* C36 (amended): the policy id rule holds for every request of an enabled
\* policy_enforcement_v2 (config.enabled = True): the policy enforced is
\* request.state.policy_id when non-empty and the x-policy-id header
\* otherwise; with no policy id from either the middleware rejects with HTTP
\* 400 before any directory call, and global_middleware forwards a request
\* with neither the state attribute nor the header without verification.
C36_PolicyIdSource ==
    (finished.pc = "done" /\ finished.entry = "global" /\ config.enabled)
    => PolicyIdSourceHolds

\* state and header named different policies, and the one of request.state
\* was verified
C36_Witness ==
    /\ finished.pc = "done" /\ finished.entry = "global" /\ config.enabled
    /\ finished.state_policy_id # NoPolicy /\ finished.header_policy_id # NoPolicy
    /\ finished.state_policy_id # finished.header_policy_id
    /\ finished.posted /\ finished.input[2] = finished.state_policy_id

\* ----------------------------------------------------------------------- C37
\* C37: in dispatch of middleware_v2 and middleware_simple, in every
\* reachable state, request.state.agent is set (get_agent(request) is not
\* None) only if verify_agent_passport returned the agent and, in
\* middleware_v2, every enforcement check passed; a request that the
\* middleware denied or failed has no agent attached.
C37_AgentOnlyWhenAuthorized ==
    disp.variant \in {"v2", "simple"} =>
       /\ disp.state_agent =>
             /\ disp.verify.kind = "ok" /\ disp.verify_calls = 1
             /\ ~disp.skipped /\ disp.agent_id # NoHeader
             /\ disp.failed_check = "none"
             /\ disp.variant = "v2" =>
                   /\ RequiredPermissionsCheck(disp.required_permissions, disp.agent)
                   /\ AllowedRegionsCheck(disp.allowed_regions, disp.agent)
                   /\ CheckRegionRequirements(disp.agent.regions, disp.allowed_regions)
                   /\ disp.agent.denied = {}
             /\ disp.called_next = 1
       /\ (disp.pc = "done" /\ disp.status >= 400 /\ ~disp.handler_raised)
             => ~disp.state_agent

\* middleware_v2 attached the agent after permission and region options passed
C37_Witness ==
    /\ disp.pc = "done" /\ disp.variant = "v2" /\ disp.state_agent
    /\ disp.required_permissions # {} /\ disp.allowed_regions # {}
    /\ disp.status = 200

\* ----------------------------------------------------------------------- C38
\* the status codes of the terminal outcomes: the handler's response, a
\* denial, an error
TerminalStatuses == {200} \cup DenialStatuses \cup ErrorStatuses \cup {404}

====
